---- MODULE Spec2Model ----
(***************************************************************************)
(* A model of the XKTimer module of XKLib (xktimer.c / xktimer.h): the     *)
(* registry of timer pointers, the per-timer record, and the API that      *)
(* registers, starts, stops, retunes and polls timers.                     *)
(*                                                                         *)
(* Time.  clock is the raw value of the C library's clock(); the module    *)
(* only ever reads it through xktimer_clock(), which scales it to          *)
(* milliseconds.  One API call reads the clock as one value: the call is   *)
(* taken to finish within the clock tick in which it began.                *)
(*                                                                         *)
(* Builds.  The registry is a static array when XKTIMER_NO_MALLOC is       *)
(* defined and a heap block otherwise; no_malloc records which build the   *)
(* program is, each specification chooses the builds it covers in Init.    *)
(***************************************************************************)
EXTENDS Integers, Sequences, FiniteSets, TLC

VARIABLES
    clock,            \* the value clock() returns now
    clocks_per_sec,   \* the platform's CLOCKS_PER_SEC (fixed by Init)
    no_malloc,        \* TRUE iff built with XKTIMER_NO_MALLOC (fixed by Init)
    timer,            \* the caller-owned xktimer_t records, by address 1..n
    xktimer_ref,      \* the registry: [null |-> pointer is NULL, slot |-> entries]
    xktimer_ref_idx,  \* index of the last added timer + 1
    crashed,          \* the program was stopped by a NULL dereference
    op,               \* the last API call: [name |-> function, t |-> pointer passed]
    ret,              \* what it returned: "true", "false", or "none" (void)
    fired,            \* callbacks invoked by the last API call, in order
    hist,             \* per timer: what happened since its last xktimer_start
    ptimer            \* the caller's simple periodic timer: the clock_t it
                      \* passes to xktimer_periodic, and the period it uses

vars == <<clock, clocks_per_sec, no_malloc, ptimer, timer, xktimer_ref,
          xktimer_ref_idx, crashed, op, ret, fired, hist>>

----------------------------------------------------------------------------
(* Program constants (xktimer.h) *)

XKTIMER_SINGLE_SHOT == 1
XKTIMER_PERIODIC == 2
XKTIMER_DUAL_STATE == 3
XKTIMER_RESOLUTION == 1000
XKTIMER_MAX_TIMERS == 30

(* Bounds of the model *)

MaxClock == 4        \* the clock is followed up to this many milliseconds
MaxTimeout == 2      \* timeouts passed by callers range over 0..MaxTimeout
MaxRegistered == 1   \* Spec's caller registers at most this many entries
CbTimeout == 2       \* the timeout a callback passes when it retunes its timer
CbTimeout2 == 1      \* the second timeout it passes to xktimer_set_timeout_dual

ClockBits == 3       \* the width w of clock_t where wraparound is examined

NULL == 0            \* the NULL timer pointer; timers live at addresses 1..n
NULL_CB == "NULL"    \* the NULL callback pointer
CB_LOG == "cb_log"   \* a user callback that calls no XKTimer function

\* User callbacks that call the API on their own timer: the two examples of
\* xktimer.h, and one that stops the timer
CB_RESTART == "timer_single_shot"  \* xktimer_set_timeout, then xktimer_start
CB_RETUNE == "timer_dual_state"    \* xktimer_set_timeout_dual
CB_STOP == "cb_stop"               \* xktimer_stop
ApiCallbacks == {CB_RESTART, CB_RETUNE, CB_STOP}

\* User callbacks that call the API on the other one of two timers
CB_STOP_OTHER == "cb_stop_other"     \* xktimer_stop
CB_START_OTHER == "cb_start_other"   \* xktimer_start
CB_SET_OTHER == "cb_set_other"       \* xktimer_set_timeout
CrossCallbacks == {CB_STOP_OTHER, CB_START_OTHER, CB_SET_OTHER}

Timeouts == 0..MaxTimeout
Callbacks == {NULL_CB, CB_LOG}
TypeInputs == {XKTIMER_SINGLE_SHOT, XKTIMER_PERIODIC, XKTIMER_DUAL_STATE}

Timers == DOMAIN timer
Refs == Timers \cup {NULL}

\* A record in zero-initialised static storage (`xktimer_t timer;` at file
\* scope, as in the examples of xktimer.h).
ZeroTimer ==
    [type |-> 0, enabled |-> FALSE, state |-> 0, timeout |-> 0,
     timeout2 |-> 0, ticks |-> 0, callback |-> NULL_CB]

\* No clean start on record: the timer was never started, or another API
\* call touched it since.
NoHist == [n |-> -1, par |-> 0, last |-> 0, arg |-> 0]

Min(a, b) == IF a < b THEN a ELSE b

----------------------------------------------------------------------------
(* The clock adapter *)

\* clock() / (CLOCKS_PER_SEC / XKTIMER_RESOLUTION), for a raw clock value c
ScaleClock(c) == c \div (clocks_per_sec \div XKTIMER_RESOLUTION)

xktimer_clock == ScaleClock(clock)

----------------------------------------------------------------------------
(* Pure parts of the API: what each function does to one record r when     *)
(* xktimer_clock() returns clk.                                            *)

xktimer_assert(t) == t # NULL

\* mutant: the second timeout is never used
update_ticks_first_timeout_only(r, clk) ==
    [r EXCEPT !.ticks = clk + r.timeout]

xktimer_update_ticks(r, clk) ==
    IF r.state = 0
    THEN [r EXCEPT !.ticks = clk + r.timeout]
    ELSE [r EXCEPT !.ticks = clk + r.timeout2]

\* xktimer_add, lines 120-127: the fields it sets, then the deadline
xktimer_add_fields(r, type, timeout, callback, clk) ==
    xktimer_update_ticks(
        [r EXCEPT !.type = type, !.enabled = FALSE, !.state = 0,
                  !.timeout = timeout, !.timeout2 = 0,
                  !.callback = callback], clk)

\* xktimer_add_dual, lines 142-149
xktimer_add_dual_fields(r, timeout, timeout2, callback, clk) ==
    xktimer_update_ticks(
        [r EXCEPT !.type = XKTIMER_DUAL_STATE, !.enabled = FALSE, !.state = 0,
                  !.timeout = timeout, !.timeout2 = timeout2,
                  !.callback = callback], clk)

\* mutant: the deadline is computed from the new timeout in either phase
set_timeout_ignores_state(r, timeout, clk) ==
    [r EXCEPT !.timeout = timeout, !.ticks = clk + timeout]

xktimer_set_timeout_fields(r, timeout, clk) ==
    xktimer_update_ticks([r EXCEPT !.timeout = timeout], clk)

\* mutant: the phase is not reset
set_timeout_dual_keeps_state(r, timeout, timeout2, clk) ==
    xktimer_update_ticks(
        [r EXCEPT !.timeout = timeout, !.timeout2 = timeout2], clk)

xktimer_set_timeout_dual_fields(r, timeout, timeout2, clk) ==
    xktimer_update_ticks(
        [r EXCEPT !.state = 0, !.timeout = timeout, !.timeout2 = timeout2],
        clk)

\* mutant: starting does not recompute the deadline
start_keeps_deadline(r, clk) == [r EXCEPT !.enabled = TRUE, !.state = 0]

\* mutant: the phase is not reset, the timer resumes where it was stopped
start_keeps_state(r, clk) ==
    xktimer_update_ticks([r EXCEPT !.enabled = TRUE], clk)

xktimer_start_fields(r, clk) ==
    xktimer_update_ticks([r EXCEPT !.enabled = TRUE, !.state = 0], clk)

\* mutant: stopping also resets the phase
stop_resets_state(r) == [r EXCEPT !.enabled = FALSE, !.state = 0]

xktimer_stop_fields(r) == [r EXCEPT !.enabled = FALSE]

\* mutant: a periodic timer toggles its phase too
switch_toggles_periodic(r) ==
    CASE r.type = XKTIMER_SINGLE_SHOT -> [r EXCEPT !.enabled = FALSE]
      [] r.type \in {XKTIMER_PERIODIC, XKTIMER_DUAL_STATE} ->
            IF r.state = 0 THEN [r EXCEPT !.state = 1]
                           ELSE [r EXCEPT !.state = 0]
      [] OTHER -> r

\* mutant: a periodic timer is disabled when it expires, like a single shot
switch_stops_periodic(r) ==
    CASE r.type = XKTIMER_SINGLE_SHOT -> [r EXCEPT !.enabled = FALSE]
      [] r.type = XKTIMER_PERIODIC -> [r EXCEPT !.enabled = FALSE]
      [] r.type = XKTIMER_DUAL_STATE ->
            IF r.state = 0 THEN [r EXCEPT !.state = 1]
                           ELSE [r EXCEPT !.state = 0]
      [] OTHER -> r

\* mutant: a single shot timer is not disabled when it expires
switch_keeps_single_shot_running(r) ==
    CASE r.type = XKTIMER_DUAL_STATE ->
            IF r.state = 0 THEN [r EXCEPT !.state = 1]
                           ELSE [r EXCEPT !.state = 0]
      [] OTHER -> r

\* the switch of xktimer_handle, lines 272-285
xktimer_handle_switch(r) ==
    CASE r.type = XKTIMER_SINGLE_SHOT -> [r EXCEPT !.enabled = FALSE]
      [] r.type = XKTIMER_PERIODIC -> r
      [] r.type = XKTIMER_DUAL_STATE ->
            IF r.state = 0 THEN [r EXCEPT !.state = 1]
                           ELSE [r EXCEPT !.state = 0]
      [] OTHER -> r

\* of the two timers at addresses 1 and 2, the one that is not t
OtherTimer(t) == 3 - t

\* what the API call made by callback cb does to the record r it is made on
CrossEffect(cb, r, clk) ==
    CASE cb = CB_STOP_OTHER -> xktimer_stop_fields(r)
      [] cb = CB_START_OTHER -> xktimer_start_fields(r, clk)
      [] cb = CB_SET_OTHER -> xktimer_set_timeout_fields(r, CbTimeout, clk)

\* What running callback cb of timer t does to the timer records.
CallbackBody(cb, tm, t, clk) ==
    CASE cb = CB_RESTART ->
            [tm EXCEPT ![t] =
                xktimer_start_fields(
                    xktimer_set_timeout_fields(tm[t], CbTimeout, clk), clk)]
      [] cb = CB_RETUNE ->
            [tm EXCEPT ![t] =
                xktimer_set_timeout_dual_fields(tm[t], CbTimeout, CbTimeout2,
                                                clk)]
      [] cb = CB_STOP -> [tm EXCEPT ![t] = xktimer_stop_fields(tm[t])]
      [] cb \in CrossCallbacks ->
            [tm EXCEPT ![OtherTimer(t)] =
                CrossEffect(cb, tm[OtherTimer(t)], clk)]
      [] OTHER -> tm

\* mutant: the callback is passed the phase that was completed
InvokeCallback_old_phase(tm, t, clk) ==
    IF tm[t].callback # NULL_CB
    THEN [tm |-> CallbackBody(tm[t].callback, tm, t, clk),
          exp |-> <<[timer |-> t, arg |-> tm[t].state]>>,
          calls |-> <<[timer |-> t,
                       arg |-> IF tm[t].type = XKTIMER_DUAL_STATE
                               THEN 1 - tm[t].state ELSE tm[t].state]>>]
    ELSE [tm |-> tm,
          exp |-> <<[timer |-> t, arg |-> tm[t].state]>>,
          calls |-> <<>>]

\* if (timer->callback) timer->callback(timer->state), lines 289-291, at
\* the end of an expiry of timer t.  exp lists the expiries, calls the
\* callback invocations, each with the state the timer has at that point.
InvokeCallback(tm, t, clk) ==
    IF tm[t].callback # NULL_CB
    THEN [tm |-> CallbackBody(tm[t].callback, tm, t, clk),
          exp |-> <<[timer |-> t, arg |-> tm[t].state]>>,
          calls |-> <<[timer |-> t, arg |-> tm[t].state]>>]
    ELSE [tm |-> tm,
          exp |-> <<[timer |-> t, arg |-> tm[t].state]>>,
          calls |-> <<>>]

NothingDone(tm) == [tm |-> tm, exp |-> <<>>, calls |-> <<>>]

\* mutant: the enabled flag is not looked at
HandleResult_ignores_enabled(tm, t, clk) ==
    IF ~xktimer_assert(t)
    THEN NothingDone(tm)
    ELSE IF clk >= tm[t].ticks
         THEN InvokeCallback(
                 [tm EXCEPT ![t] =
                     xktimer_update_ticks(xktimer_handle_switch(tm[t]), clk)],
                 t, clk)
         ELSE NothingDone(tm)

\* mutant: the next deadline is measured from the deadline that was missed
HandleResult_from_deadline(tm, t, clk) ==
    IF ~xktimer_assert(t) \/ ~tm[t].enabled
    THEN NothingDone(tm)
    ELSE IF clk >= tm[t].ticks
         THEN InvokeCallback(
                 [tm EXCEPT ![t] =
                     xktimer_update_ticks(xktimer_handle_switch(tm[t]),
                                          tm[t].ticks)],
                 t, clk)
         ELSE NothingDone(tm)

\* mutant: the callback runs first, the transition and the deadline after it
HandleResult_callback_first(tm, t, clk) ==
    IF ~xktimer_assert(t) \/ ~tm[t].enabled
    THEN NothingDone(tm)
    ELSE IF clk >= tm[t].ticks
         THEN LET c == InvokeCallback(tm, t, clk)
              IN  [c EXCEPT !.tm =
                      [c.tm EXCEPT ![t] =
                          xktimer_update_ticks(xktimer_handle_switch(c.tm[t]),
                                               clk)]]
         ELSE NothingDone(tm)

\* a w-bit clock_t: values are kept modulo 2^w
Modulus == 2 ^ ClockBits

\* mutant: the expiry test is a wraparound tolerant subtraction
HandleResult_wrap_safe(tm, t, clk) ==
    IF ~xktimer_assert(t) \/ ~tm[t].enabled
    THEN NothingDone(tm)
    ELSE IF (clk - tm[t].ticks) % Modulus < Modulus \div 2
         THEN InvokeCallback(
                 [tm EXCEPT ![t] =
                     xktimer_update_ticks(xktimer_handle_switch(tm[t]), clk)],
                 t, clk)
         ELSE NothingDone(tm)

\* xktimer_handle(t) on the records tm: the records afterwards, the
\* expiries it found and the callbacks it invoked
HandleResult(tm, t, clk) ==
    IF ~xktimer_assert(t) \/ ~tm[t].enabled
    THEN NothingDone(tm)
    ELSE IF clk >= tm[t].ticks
         THEN InvokeCallback(
                 [tm EXCEPT ![t] =
                     xktimer_update_ticks(xktimer_handle_switch(tm[t]), clk)],
                 t, clk)
         ELSE NothingDone(tm)

\* mutant: the loop ends at the first entry that expired
RECURSIVE TaskResult_stops_at_expiry(_, _, _, _)
TaskResult_stops_at_expiry(res, slots, i, clk) ==
    IF i > Len(slots) \/ res.exp # <<>>
    THEN res
    ELSE CHOOSE out \in
            {TaskResult_stops_at_expiry(next, slots, i + 1, clk) :
                next \in {[tm |-> h.tm, exp |-> res.exp \o h.exp,
                           calls |-> res.calls \o h.calls] :
                             h \in {HandleResult(res.tm, slots[i], clk)}}} :
            TRUE

\* mutant: the loop runs from the last entry to the first
RECURSIVE TaskResult_last_first(_, _, _, _)
TaskResult_last_first(res, slots, i, clk) ==
    IF i > Len(slots)
    THEN res
    ELSE CHOOSE out \in
            {TaskResult_last_first(next, slots, i + 1, clk) :
                next \in {[tm |-> h.tm, exp |-> res.exp \o h.exp,
                           calls |-> res.calls \o h.calls] :
                             h \in {HandleResult(res.tm,
                                                 slots[Len(slots) + 1 - i],
                                                 clk)}}} :
            TRUE

\* h is what xktimer_handle does to entry i, next the accumulated result
\* after it (each bound to its one value, so that it is computed once)
RECURSIVE TaskResult(_, _, _, _)
TaskResult(res, slots, i, clk) ==
    IF i > Len(slots)
    THEN res
    ELSE CHOOSE out \in
            {TaskResult(next, slots, i + 1, clk) :
                next \in {[tm |-> h.tm, exp |-> res.exp \o h.exp,
                           calls |-> res.calls \o h.calls] :
                             h \in {HandleResult(res.tm, slots[i], clk)}}} :
            TRUE

----------------------------------------------------------------------------
(* History kept for the properties (not program state) *)

\* hist[t], while n >= 0: the caller started the timer with xktimer_start
\* and has made no API call other than xktimer_handle / xktimer_task on it
\* since (what the timer's own callback does is not the caller's call);
\*   n    the number of its expiries since then, counted up to 2
\*   par  that number modulo 2
\*   last the clock value at the start or, after an expiry, at the last one
\*   arg  the state the timer had at the end of its last expiry
HistStart(clk) == [n |-> 0, par |-> 0, last |-> clk, arg |-> 0]

HistFire(h, e, clk) ==
    IF h.n < 0 THEN h
    ELSE [n |-> Min(h.n + 1, 2), par |-> 1 - h.par, last |-> clk,
          arg |-> e.arg]

\* hist after the expiries exp found at clk
RECURSIVE HistAfter(_, _, _)
HistAfter(h, exp, clk) ==
    IF exp = <<>> THEN h
    ELSE HistAfter([h EXCEPT ![Head(exp).timer] =
                        HistFire(h[Head(exp).timer], Head(exp), clk)],
                   Tail(exp), clk)

----------------------------------------------------------------------------
(* The registry *)

\* What malloc/realloc may do in one call that needs the heap: succeed, or
\* fail; after a failed realloc the store goes through a NULL pointer, which
\* either stops the program or is lost.
AllocOutcomes == {"ok", "fail_crash", "fail_lost"}

\* xktimer_add_ptr(t): the registry afterwards, whether the program was
\* stopped, and the value returned.
xktimer_add_ptr(t, alloc) ==
    IF no_malloc
    THEN \* xktimer_ref[xktimer_ref_idx++] = timer;
         [ref |-> [xktimer_ref EXCEPT !.slot = Append(@, t)],
          idx |-> xktimer_ref_idx + 1, crashed |-> FALSE, result |-> TRUE]
    ELSE IF xktimer_ref.null
    THEN [ref |-> xktimer_ref, idx |-> xktimer_ref_idx,
          crashed |-> FALSE, result |-> FALSE]
    ELSE \* sizeof(xktimer_ref) / XKTIMER_PTR_SIZE is 1, so the block is
         \* reallocated to xktimer_ref_idx + 1 entries on every call
         IF alloc = "ok"
         THEN [ref |-> [xktimer_ref EXCEPT !.slot = Append(@, t)],
               idx |-> xktimer_ref_idx + 1, crashed |-> FALSE,
               result |-> TRUE]
         ELSE IF alloc = "fail_crash"
         THEN [ref |-> [null |-> TRUE, slot |-> <<>>],
               idx |-> xktimer_ref_idx, crashed |-> TRUE, result |-> TRUE]
         ELSE [ref |-> [null |-> TRUE, slot |-> <<>>],
               idx |-> xktimer_ref_idx + 1, crashed |-> FALSE,
               result |-> TRUE]

\* mutant: the pointer is not tested against NULL
Register_accepts_null(t, fields, alloc) ==
    IF xktimer_ref_idx >= XKTIMER_MAX_TIMERS
    THEN /\ ret' = "false"
         /\ UNCHANGED <<timer, xktimer_ref, xktimer_ref_idx, crashed, hist>>
    ELSE LET p == xktimer_add_ptr(t, alloc)
         IN  /\ timer' = [u \in Timers |-> IF u = t THEN fields ELSE timer[u]]
             /\ hist' = [u \in Timers |-> IF u = t THEN NoHist ELSE hist[u]]
             /\ xktimer_ref' = p.ref
             /\ xktimer_ref_idx' = p.idx
             /\ crashed' = p.crashed
             /\ ret' = IF p.crashed THEN "none" ELSE "true"

\* mutant: the capacity test is off by one (> for >=)
Register_accepts_one_more(t, fields, alloc) ==
    IF ~xktimer_assert(t) \/ xktimer_ref_idx > XKTIMER_MAX_TIMERS
    THEN /\ ret' = "false"
         /\ UNCHANGED <<timer, xktimer_ref, xktimer_ref_idx, crashed, hist>>
    ELSE LET p == xktimer_add_ptr(t, alloc)
         IN  /\ timer' = [timer EXCEPT ![t] = fields]
             /\ hist' = [hist EXCEPT ![t] = NoHist]
             /\ xktimer_ref' = p.ref
             /\ xktimer_ref_idx' = p.idx
             /\ crashed' = p.crashed
             /\ ret' = IF p.crashed THEN "none" ELSE "true"

\* What xktimer_add and xktimer_add_dual share: the guard (lines 116-118),
\* the writes to the record, xktimer_add_ptr, and `return true` whatever
\* xktimer_add_ptr returned.
Register(t, fields, alloc) ==
    IF ~xktimer_assert(t) \/ xktimer_ref_idx >= XKTIMER_MAX_TIMERS
    THEN /\ ret' = "false"
         /\ UNCHANGED <<timer, xktimer_ref, xktimer_ref_idx, crashed, hist>>
    ELSE LET p == xktimer_add_ptr(t, alloc)
         IN  /\ timer' = [timer EXCEPT ![t] = fields]
             /\ hist' = [hist EXCEPT ![t] = NoHist]
             /\ xktimer_ref' = p.ref
             /\ xktimer_ref_idx' = p.idx
             /\ crashed' = p.crashed
             /\ ret' = IF p.crashed THEN "none" ELSE "true"

xktimer_init(alloc) ==
    /\ ~crashed
    /\ xktimer_ref_idx' = 0
    /\ xktimer_ref' =
          IF no_malloc THEN [null |-> FALSE, slot |-> <<>>]
          ELSE [null |-> alloc # "ok", slot |-> <<>>]
    /\ op' = [name |-> "init", t |-> NULL]
    /\ ret' = "none"
    /\ fired' = <<>>
    /\ UNCHANGED <<clock, clocks_per_sec, no_malloc, ptimer, timer, crashed,
                   hist>>

xktimer_add(t, type, timeout, callback, alloc) ==
    /\ ~crashed
    /\ op' = [name |-> "add", t |-> t]
    /\ Register(t,
                IF xktimer_assert(t)
                THEN xktimer_add_fields(timer[t], type, timeout, callback,
                                        xktimer_clock)
                ELSE ZeroTimer,
                alloc)
    /\ fired' = <<>>
    /\ UNCHANGED <<clock, clocks_per_sec, no_malloc, ptimer>>

xktimer_add_dual(t, timeout, timeout2, callback, alloc) ==
    /\ ~crashed
    /\ op' = [name |-> "add_dual", t |-> t]
    /\ Register(t,
                IF xktimer_assert(t)
                THEN xktimer_add_dual_fields(timer[t], timeout, timeout2,
                                             callback, xktimer_clock)
                ELSE ZeroTimer,
                alloc)
    /\ fired' = <<>>
    /\ UNCHANGED <<clock, clocks_per_sec, no_malloc, ptimer>>

----------------------------------------------------------------------------
(* The timer API *)

\* The void API function name, which rewrites the record of t to r (nothing
\* when t is NULL) and invokes no callback; h is the history afterwards.
Mutate(name, t, r, h) ==
    /\ ~crashed
    /\ op' = [name |-> name, t |-> t]
    /\ IF xktimer_assert(t)
       THEN /\ timer' = [timer EXCEPT ![t] = r]
            /\ hist' = [hist EXCEPT ![t] = h]
       ELSE UNCHANGED <<timer, hist>>
    /\ ret' = "none"
    /\ fired' = <<>>
    /\ UNCHANGED <<clock, clocks_per_sec, no_malloc, ptimer, xktimer_ref,
                   xktimer_ref_idx, crashed>>

xktimer_set_timeout(t, timeout) ==
    Mutate("set_timeout", t,
           IF xktimer_assert(t)
           THEN xktimer_set_timeout_fields(timer[t], timeout, xktimer_clock)
           ELSE ZeroTimer,
           NoHist)

xktimer_set_timeout_dual(t, timeout, timeout2) ==
    Mutate("set_timeout_dual", t,
           IF xktimer_assert(t)
           THEN xktimer_set_timeout_dual_fields(timer[t], timeout, timeout2,
                                                xktimer_clock)
           ELSE ZeroTimer,
           NoHist)

xktimer_start(t) ==
    Mutate("start", t,
           IF xktimer_assert(t)
           THEN xktimer_start_fields(timer[t], xktimer_clock)
           ELSE ZeroTimer,
           HistStart(xktimer_clock))

xktimer_stop(t) ==
    Mutate("stop", t,
           IF xktimer_assert(t) THEN xktimer_stop_fields(timer[t])
           ELSE ZeroTimer,
           NoHist)

\* xktimer_update_ticks called by the user
xktimer_update_ticks_api(t) ==
    Mutate("update_ticks", t,
           IF xktimer_assert(t)
           THEN xktimer_update_ticks(timer[t], xktimer_clock)
           ELSE ZeroTimer,
           NoHist)

\* The API function name, which only reads the record of t and returns
\* value
Getter(name, t, value) ==
    /\ ~crashed
    /\ op' = [name |-> name, t |-> t]
    /\ ret' = value
    /\ fired' = <<>>
    /\ UNCHANGED <<clock, clocks_per_sec, no_malloc, ptimer, timer,
                   xktimer_ref, xktimer_ref_idx, crashed, hist>>

xktimer_timeout(t) ==
    Getter("timeout", t, IF xktimer_assert(t) THEN timer[t].timeout ELSE 0)

xktimer_timeout2(t) ==
    Getter("timeout2", t, IF xktimer_assert(t) THEN timer[t].timeout2 ELSE 0)

\* return timer->ticks - clock(); with the raw clock() value
xktimer_next_timeout(t) ==
    Getter("next_timeout", t,
           IF xktimer_assert(t) THEN timer[t].ticks - clock ELSE 0)

xktimer_running(t) ==
    Getter("running", t,
           IF xktimer_assert(t) /\ timer[t].enabled THEN "true" ELSE "false")

\* The state after the polling result res (of HandleResult / TaskResult)
\* obtained at clock value clk
Polled(res, clk) ==
    \E r \in {res} :
        /\ timer' = r.tm
        /\ fired' = r.calls
        /\ hist' = HistAfter(hist, r.exp, clk)
        /\ ret' = "none"

xktimer_handle(t) ==
    /\ ~crashed
    /\ op' = [name |-> "handle", t |-> t]
    /\ Polled(HandleResult(timer, t, xktimer_clock), xktimer_clock)
    /\ UNCHANGED <<clock, clocks_per_sec, no_malloc, ptimer, xktimer_ref,
                   xktimer_ref_idx, crashed>>

\* xktimer_task(); a read through a NULL registry pointer either stops the
\* program (segv) or yields the pointer value garbage
xktimer_task(segv, garbage) ==
    /\ ~crashed
    /\ op' = [name |-> "task", t |-> NULL]
    /\ IF xktimer_ref.null /\ xktimer_ref_idx > 0
       THEN IF segv
            THEN /\ crashed' = TRUE
                 /\ ret' = "none"
                 /\ UNCHANGED <<timer, fired, hist>>
            ELSE /\ Polled(TaskResult(NothingDone(timer),
                                      [i \in 1..xktimer_ref_idx |-> garbage],
                                      1, xktimer_clock),
                           xktimer_clock)
                 /\ UNCHANGED crashed
       ELSE /\ Polled(TaskResult(NothingDone(timer), xktimer_ref.slot, 1,
                                 xktimer_clock),
                      xktimer_clock)
            /\ UNCHANGED crashed
    /\ UNCHANGED <<clock, clocks_per_sec, no_malloc, ptimer, xktimer_ref,
                   xktimer_ref_idx>>

\* clock() advances by one
Tick ==
    /\ ~crashed
    /\ ScaleClock(clock + 1) <= MaxClock
    /\ clock' = clock + 1
    /\ UNCHANGED <<clocks_per_sec, no_malloc, ptimer, timer, xktimer_ref,
                   xktimer_ref_idx, crashed, op, ret, fired, hist>>

----------------------------------------------------------------------------
(* Spec: one timer, any caller, both builds *)

\* The program after its call of xktimer_init(): n timer records in static
\* storage, an empty registry, and, in the heap build, a registry pointer
\* that is NULL when the malloc of xktimer_init failed.
InitWith(n, builds, cps) ==
    /\ clock = 0
    /\ clocks_per_sec \in cps
    /\ no_malloc \in builds
    /\ timer = [t \in 1..n |-> ZeroTimer]
    /\ xktimer_ref \in {[null |-> isnull, slot |-> <<>>] :
                          isnull \in IF no_malloc THEN {FALSE} ELSE BOOLEAN}
    /\ xktimer_ref_idx = 0
    /\ crashed = FALSE
    /\ op = [name |-> "none", t |-> NULL]
    /\ ret = "none"
    /\ fired = <<>>
    /\ hist = [t \in 1..n |-> NoHist]
    /\ ptimer = [ticks |-> 0, period |-> 0]

Init == InitWith(1, {TRUE}, {1000})

\* The allocation outcomes that can differ in the current state
AllocChoices ==
    IF no_malloc \/ xktimer_ref.null THEN {"ok"} ELSE AllocOutcomes

\* Every API function that takes a timer pointer, called with NULL
NullCall ==
    \/ xktimer_add(NULL, XKTIMER_PERIODIC, 1, CB_LOG, "ok")
    \/ xktimer_add_dual(NULL, 1, 1, CB_LOG, "ok")
    \/ xktimer_set_timeout(NULL, 1)
    \/ xktimer_set_timeout_dual(NULL, 1, 1)
    \/ xktimer_start(NULL)
    \/ xktimer_stop(NULL)
    \/ xktimer_handle(NULL)
    \/ xktimer_update_ticks_api(NULL)
    \/ xktimer_timeout(NULL)
    \/ xktimer_timeout2(NULL)
    \/ xktimer_next_timeout(NULL)
    \/ xktimer_running(NULL)

Add ==
    /\ xktimer_ref_idx < MaxRegistered
    /\ \E t \in Timers, ty \in TypeInputs, to \in Timeouts,
          cb \in Callbacks, a \in AllocChoices :
            xktimer_add(t, ty, to, cb, a)

AddDual ==
    /\ xktimer_ref_idx < MaxRegistered
    /\ \E t \in Timers, to \in Timeouts, to2 \in Timeouts,
          cb \in Callbacks, a \in AllocChoices :
            xktimer_add_dual(t, to, to2, cb, a)

SetTimeout == \E t \in Timers, to \in Timeouts : xktimer_set_timeout(t, to)

SetTimeoutDual ==
    \E t \in Timers, to \in Timeouts, to2 \in Timeouts :
        xktimer_set_timeout_dual(t, to, to2)

Start == \E t \in Timers : xktimer_start(t)

Stop == \E t \in Timers : xktimer_stop(t)

Handle == \E t \in Timers : xktimer_handle(t)

Task ==
    \E segv \in BOOLEAN, g \in Refs :
        /\ (~(xktimer_ref.null /\ xktimer_ref_idx > 0))
              => (~segv /\ g = NULL)
        /\ xktimer_task(segv, g)

InitModule == \E a \in AllocChoices : xktimer_init(a)

Next ==
    \/ InitModule
    \/ Add
    \/ AddDual
    \/ SetTimeout
    \/ SetTimeoutDual
    \/ Start
    \/ Stop
    \/ Handle
    \/ Task
    \/ Tick

Spec == Init /\ [][Next]_vars

----------------------------------------------------------------------------
(* Properties of the timer state machine (Spec) *)

Clean(t) == hist[t].n >= 0

HasCallback(t) == timer[t].callback # NULL_CB

\* the callback invocation xktimer_handle(t) makes when t expires in state a
Call(t, a) == [timer |-> t, arg |-> a]

\* C1: a single shot timer started at clock value s with timeout T and not
\* otherwise touched: xktimer_handle invokes no callback while the clock is
\* below s + T, the first xktimer_handle at or after s + T invokes the
\* callback once, with argument 0, and leaves the timer disabled, and every
\* later xktimer_handle invokes no callback and changes no field.
C1_StateInv ==
    \A t \in Timers :
        (Clean(t) /\ timer[t].type = XKTIMER_SINGLE_SHOT) =>
            /\ hist[t].n <= 1
            /\ hist[t].n = 0 =>
                  /\ timer[t].enabled
                  /\ timer[t].ticks = hist[t].last + timer[t].timeout
            /\ hist[t].n = 1 =>
                  /\ ~timer[t].enabled
                  /\ hist[t].arg = 0
                  /\ hist[t].last >= timer[t].ticks - timer[t].timeout

C1_HandleStep ==
    \A t \in Timers :
        (/\ Clean(t)
         /\ timer[t].type = XKTIMER_SINGLE_SHOT
         /\ HasCallback(t)
         /\ xktimer_handle(t)) =>
            IF hist[t].n = 0
               /\ xktimer_clock >= hist[t].last + timer[t].timeout
            THEN /\ fired' = <<Call(t, 0)>>
                 /\ ~timer'[t].enabled
                 /\ hist'[t].n = 1
            ELSE /\ fired' = <<>>
                 /\ timer'[t] = timer[t]

C1_SingleShotFiresOnce == [](C1_StateInv) /\ [][C1_HandleStep]_vars

\* the poll that found the single shot timer expired, after time has passed
C1_Witness ==
    \E t \in Timers :
        /\ Clean(t) /\ timer[t].type = XKTIMER_SINGLE_SHOT
        /\ op = [name |-> "handle", t |-> t]
        /\ hist[t].n = 1
        /\ hist[t].last = xktimer_clock
        /\ timer[t].timeout > 0
        /\ fired = <<Call(t, 0)>>
        /\ ~timer[t].enabled

\* C2: the callback of a started dual state timer receives 0 at its first
\* expiry after xktimer_start, 1 at the next, and so on alternating: the k-th
\* expiry passes (k - 1) modulo 2.
C2_DualArgsStartAtZero ==
    [][\A t \in Timers :
          (/\ Clean(t)
           /\ timer[t].type = XKTIMER_DUAL_STATE
           /\ HasCallback(t)
           /\ xktimer_handle(t)
           /\ fired' # <<>>) => fired' = <<Call(t, hist[t].par)>>]_vars

\* C7: xktimer_handle on a stopped timer, or on a running one before its
\* deadline, invokes no callback and changes no field; so every callback a
\* poll invokes belongs to a timer that was running and due.
C7_NoOpStep ==
    \A t \in Timers :
        (/\ ~timer[t].enabled \/ xktimer_clock < timer[t].ticks
         /\ xktimer_handle(t)) =>
            /\ fired' = <<>>
            /\ timer'[t] = timer[t]

C7_FiredWasDue ==
    (Handle \/ Task) =>
        \A i \in DOMAIN fired' :
            /\ timer[fired'[i].timer].enabled
            /\ xktimer_clock >= timer[fired'[i].timer].ticks

C7_HandleNoOpUnlessDue == [][C7_NoOpStep /\ C7_FiredWasDue]_vars

\* xktimer_handle just returned from a running timer that has a callback and
\* is not yet due, having been polled since it was started
C7_Witness ==
    \E t \in Timers :
        /\ op = [name |-> "handle", t |-> t]
        /\ timer[t].enabled /\ HasCallback(t)
        /\ xktimer_clock < timer[t].ticks
        /\ Clean(t) /\ hist[t].n = 0
        /\ xktimer_clock > hist[t].last
        /\ fired = <<>>

\* C8: xktimer_start leaves the timer enabled, in state 0, with
\* ticks = now + timeout, whatever it was before, and changes nothing else.
C8_StartResets ==
    [][\A t \in Timers :
          xktimer_start(t) =>
              timer'[t] = [timer[t] EXCEPT
                              !.enabled = TRUE, !.state = 0,
                              !.ticks = xktimer_clock + timer[t].timeout]]_vars

\* a dual state timer just started, with two different timeouts, later than
\* its registration
C8_Witness ==
    \E t \in Timers :
        /\ op = [name |-> "start", t |-> t]
        /\ timer[t].type = XKTIMER_DUAL_STATE
        /\ timer[t].timeout # timer[t].timeout2
        /\ timer[t].enabled /\ timer[t].state = 0
        /\ xktimer_clock > 0
        /\ timer[t].ticks = xktimer_clock + timer[t].timeout

\* C9: xktimer_stop clears enabled and changes nothing else, so a timer
\* stopped in phase 1 stays in phase 1 with its deadline; xktimer_start on
\* it then restarts from phase 0 with deadline now + timeout.
C9_StopStep ==
    \A t \in Timers :
        xktimer_stop(t) => timer'[t] = [timer[t] EXCEPT !.enabled = FALSE]

C9_RestartStep ==
    \A t \in Timers :
        (~timer[t].enabled /\ xktimer_start(t)) =>
            /\ timer'[t].state = 0
            /\ timer'[t].ticks = xktimer_clock + timer[t].timeout

C10_SetTimeoutDualResets ==
    [][\A t \in Timers, a \in Timeouts, b \in Timeouts :
          xktimer_set_timeout_dual(t, a, b) =>
              timer'[t] = [timer[t] EXCEPT
                              !.state = 0, !.timeout = a, !.timeout2 = b,
                              !.ticks = xktimer_clock + a]]_vars

\* a running timer retuned while the clock is not 0; it was in phase 1 or
\* not, the formula covers both
C10_Witness ==
    \E t \in Timers :
        /\ op = [name |-> "set_timeout_dual", t |-> t]
        /\ timer[t].enabled
        /\ timer[t].timeout # timer[t].timeout2
        /\ xktimer_clock > 0
        /\ timer[t].ticks = xktimer_clock + timer[t].timeout

----------------------------------------------------------------------------
(* SpecPoll: the main loop of xktimer.h, `while (1) xktimer_task();`, runs  *)
(* at least once in every clock tick: each advance of the clock is         *)
(* followed at once by xktimer_task().  The caller is otherwise as in Spec. *)

\* xktimer_task() when xktimer_clock() returns clk (static build)
TaskAt(clk) ==
    /\ op' = [name |-> "task", t |-> NULL]
    /\ Polled(TaskResult(NothingDone(timer), xktimer_ref.slot, 1, clk), clk)
    /\ UNCHANGED <<clocks_per_sec, no_malloc, ptimer, xktimer_ref,
                   xktimer_ref_idx, crashed>>

TickTask ==
    /\ ~crashed
    /\ ScaleClock(clock + 1) <= MaxClock
    /\ clock' = clock + 1
    /\ TaskAt(ScaleClock(clock + 1))

NextPoll ==
    \/ InitModule
    \/ Add
    \/ AddDual
    \/ SetTimeout
    \/ SetTimeoutDual
    \/ Start
    \/ Stop
    \/ Handle
    \/ Task
    \/ TickTask

SpecPoll == Init /\ [][NextPoll]_vars

InRegistry(t) == \E i \in DOMAIN xktimer_ref.slot : xktimer_ref.slot[i] = t

\* the step is one in which t expired once
Expires(t) == Clean(t) /\ hist[t].n < 2 /\ hist'[t].n = hist[t].n + 1

\* the threshold of the interval that began at the start or at the last
\* expiry: T for a periodic timer; T0, T1, T0, ... for a dual state timer
IntervalThreshold(t) ==
    IF timer[t].type = XKTIMER_DUAL_STATE /\ hist[t].par = 1
    THEN timer[t].timeout2
    ELSE timer[t].timeout

Cycling(t) == timer[t].type \in {XKTIMER_PERIODIC, XKTIMER_DUAL_STATE}

PositiveThresholds(t) ==
    /\ timer[t].timeout >= 1
    /\ timer[t].type = XKTIMER_DUAL_STATE => timer[t].timeout2 >= 1

\* C3 as stated: polled at every tick, the time from xktimer_start to the
\* first firing and from each firing to the next equals the threshold of
\* that interval (T; or T0, T1, T0, ... in that order).
C3_GapsEqualThresholds ==
    [][\A t \in Timers :
          (InRegistry(t) /\ Cycling(t) /\ Expires(t)) =>
              xktimer_clock' - hist[t].last = IntervalThreshold(t)]_vars

\* C3 amended: the same, for thresholds of at least one tick.
C3_GapsEqualPositiveThresholds ==
    [][\A t \in Timers :
          (InRegistry(t) /\ Cycling(t) /\ PositiveThresholds(t)
           /\ Expires(t)) =>
              xktimer_clock' - hist[t].last = IntervalThreshold(t)]_vars

\* the second expiry of a dual state timer with two different positive
\* timeouts, found by the task that follows the tick
C3_Witness ==
    \E t \in Timers :
        /\ InRegistry(t) /\ Clean(t)
        /\ timer[t].type = XKTIMER_DUAL_STATE
        /\ timer[t].timeout >= 1 /\ timer[t].timeout2 >= 1
        /\ timer[t].timeout # timer[t].timeout2
        /\ op.name = "task"
        /\ hist[t].n = 2 /\ hist[t].par = 0
        /\ hist[t].last = xktimer_clock

----------------------------------------------------------------------------
(* FairPoll: SpecPoll with a clock that never stops.  Up to MaxClock the    *)
(* clock advances as in SpecPoll; from then on the model follows it in a   *)
(* window: an advance of the clock by one lowers every stored clock value  *)
(* (the deadlines, hist.last) by one instead, down to 0; a deadline at 0   *)
(* compares with the clock like any deadline in the past.  The caller      *)
(* makes its other calls before the window starts to slide.                *)

Slide(v) == IF v > 0 THEN v - 1 ELSE 0

SlideTickTask ==
    /\ ~crashed
    /\ xktimer_clock = MaxClock
    /\ UNCHANGED clock
    /\ LET tm == [t \in Timers |->
                    [timer[t] EXCEPT !.ticks = Slide(timer[t].ticks)]]
           hs == [t \in Timers |->
                    [hist[t] EXCEPT !.last = Slide(hist[t].last)]]
       IN  \E res \in {TaskResult(NothingDone(tm), xktimer_ref.slot, 1,
                                    MaxClock)} :
               /\ timer' = res.tm
               /\ fired' = res.calls
               /\ hist' = HistAfter(hs, res.exp, MaxClock)
    /\ op' = [name |-> "task", t |-> NULL]
    /\ ret' = "none"
    /\ UNCHANGED <<clocks_per_sec, no_malloc, ptimer, xktimer_ref,
                   xktimer_ref_idx, crashed>>

TickTaskForever == TickTask \/ SlideTickTask

CallerCall ==
    /\ xktimer_clock < MaxClock
    /\ \/ InitModule
       \/ Add
       \/ AddDual
       \/ SetTimeout
       \/ SetTimeoutDual
       \/ Start
       \/ Stop
       \/ Handle
       \/ Task

NextFair == CallerCall \/ TickTaskForever

FairPoll == Init /\ [][NextFair]_vars /\ WF_vars(TickTaskForever)

PollTimers == {1}

FiredBy(t) == \E i \in DOMAIN fired : fired[i].timer = t

\* a periodic timer with a callback that is registered and running
PeriodicRunning(t) ==
    /\ timer[t].type = XKTIMER_PERIODIC
    /\ timer[t].enabled
    /\ HasCallback(t)
    /\ InRegistry(t)

\* C4: a started periodic timer that is not stopped (nor otherwise touched)
\* is enabled after every firing, and, polled by xktimer_task at every tick
\* of a clock that keeps advancing, invokes its callback infinitely often.
C4_EnabledInv ==
    \A t \in Timers :
        (Clean(t) /\ timer[t].type = XKTIMER_PERIODIC) => timer[t].enabled

C4_PeriodicFiresForever ==
    /\ [](C4_EnabledInv)
    /\ \A t \in PollTimers : []<>(~PeriodicRunning(t) \/ FiredBy(t))

\* the callback of a periodic timer invoked by a task, at its second expiry
\* or a later one, once the window slides
C4_Witness ==
    \E t \in Timers :
        /\ PeriodicRunning(t) /\ Clean(t)
        /\ timer[t].timeout >= 1
        /\ hist[t].n = 2
        /\ xktimer_clock = MaxClock
        /\ timer[t].ticks = MaxClock + timer[t].timeout
        /\ op.name = "task"
        /\ fired = <<Call(t, 0)>>

----------------------------------------------------------------------------
(* SpecReg: the registry up to its capacity, in both builds.  Two timer     *)
(* records; the caller registers the first as often as it likes and the    *)
(* second once per registry, at any position, during the first             *)
(* MaxRegClock ticks.                                                      *)

MaxRegClock == 1

RegTimeouts == {1, 2}

InitReg == InitWith(2, BOOLEAN, {1000})

MayRegister(t) == t = 1 \/ ~InRegistry(t)

AddReg ==
    \E t \in Timers, ty \in {XKTIMER_SINGLE_SHOT}, to \in RegTimeouts,
       a \in AllocChoices :
        /\ MayRegister(t)
        /\ xktimer_add(t, ty, to, CB_LOG, a)

AddDualReg ==
    \E t \in Timers, to \in {1}, to2 \in RegTimeouts, a \in AllocChoices :
        /\ MayRegister(t)
        /\ xktimer_add_dual(t, to, to2, CB_LOG, a)

TickReg == xktimer_clock < MaxRegClock /\ Tick

NextReg ==
    \/ InitModule
    \/ AddReg
    \/ AddDualReg
    \/ TickReg

SpecReg == InitReg /\ [][NextReg]_vars

\* the step is a call xktimer_add(t, ...) or xktimer_add_dual(t, ...) that
\* stores timeout to in the record
AddCall(t, to) ==
    \/ \E ty \in TypeInputs, cb \in Callbacks, a \in AllocOutcomes :
          xktimer_add(t, ty, to, cb, a)
    \/ \E to2 \in RegTimeouts, cb \in Callbacks, a \in AllocOutcomes :
          xktimer_add_dual(t, to, to2, cb, a)

\* C5: after a call of xktimer_add / xktimer_add_dual that returned true,
\* the timer is disabled, in state 0, with ticks = clock at registration +
\* timeout, and its pointer is the new last entry of the registry: the
\* count is one higher and the earlier entries are as they were.
C5_AddStep ==
    \A t \in Timers, to \in RegTimeouts :
        (AddCall(t, to) /\ ret' = "true") =>
            /\ ~timer'[t].enabled
            /\ timer'[t].state = 0
            /\ timer'[t].ticks = xktimer_clock + to
            /\ xktimer_ref_idx' = xktimer_ref_idx + 1
            /\ ~xktimer_ref'.null
            /\ xktimer_ref'.slot = Append(xktimer_ref.slot, t)

C5_AddAppends == [][C5_AddStep]_vars

\* C6: the registry never holds more than XKTIMER_MAX_TIMERS entries; a
\* call of xktimer_add / xktimer_add_dual on a full registry returns false
\* and changes neither the registry nor any timer record.
C6_CountInv ==
    /\ xktimer_ref_idx <= XKTIMER_MAX_TIMERS
    /\ Len(xktimer_ref.slot) <= XKTIMER_MAX_TIMERS

C6_FullStep ==
    \A t \in Timers, to \in RegTimeouts :
        (xktimer_ref_idx >= XKTIMER_MAX_TIMERS /\ AddCall(t, to)) =>
            /\ ret' = "false"
            /\ UNCHANGED <<xktimer_ref, xktimer_ref_idx, timer>>

C6_CapacityEnforced == [](C6_CountInv) /\ [][C6_FullStep]_vars

\* a registration refused on a full registry that holds both timers
C6_Witness ==
    /\ op.name \in {"add", "add_dual"}
    /\ op.t # NULL
    /\ ret = "false"
    /\ xktimer_ref_idx = XKTIMER_MAX_TIMERS
    /\ Len(xktimer_ref.slot) = XKTIMER_MAX_TIMERS
    /\ InRegistry(1) /\ InRegistry(2)

----------------------------------------------------------------------------
(* More properties of the timer state machine (Spec) *)

\* the threshold that the phase of record r selects
Threshold(r) == IF r.state = 0 THEN r.timeout ELSE r.timeout2

\* C11: xktimer_set_timeout(timer, a), in any run state, sets timeout = a
\* and ticks = now + the active threshold (now + a in state 0, now +
\* timeout2 in state 1) and leaves enabled, state, timeout2, type (and the
\* callback) as they were.
C11_SetTimeoutRecomputes ==
    [][\A t \in Timers, a \in Timeouts :
          xktimer_set_timeout(t, a) =>
              timer'[t] = [timer[t] EXCEPT
                              !.timeout = a,
                              !.ticks = xktimer_clock +
                                        (IF timer[t].state = 0 THEN a
                                         ELSE timer[t].timeout2)]]_vars

\* xktimer_set_timeout just returned from a running timer in phase 1 whose
\* two timeouts differ, at a clock value other than 0
C11_Witness ==
    \E t \in Timers :
        /\ op = [name |-> "set_timeout", t |-> t]
        /\ timer[t].enabled
        /\ timer[t].state = 1
        /\ timer[t].timeout # timer[t].timeout2
        /\ xktimer_clock > 0
        /\ timer[t].ticks = xktimer_clock + timer[t].timeout2

\* C12: a timer that is not of type dual state has state 0, a dual state
\* timer has state 0 or 1; state changes only by a toggle at an expiry in
\* xktimer_handle (of a running, due, dual state timer) or by a reset to 0
\* in xktimer_start, xktimer_set_timeout_dual, xktimer_add or
\* xktimer_add_dual.
C12_StateInv ==
    \A t \in Timers :
        /\ timer[t].state \in {0, 1}
        /\ timer[t].type # XKTIMER_DUAL_STATE => timer[t].state = 0

C12_StateStep ==
    \A t \in Timers :
        timer'[t].state # timer[t].state =>
            \/ /\ op'.name \in {"handle", "task"}
               /\ timer[t].type = XKTIMER_DUAL_STATE
               /\ timer[t].enabled
               /\ xktimer_clock >= timer[t].ticks
               /\ timer'[t].state = 1 - timer[t].state
            \/ /\ op'.name \in {"start", "set_timeout_dual", "add",
                                "add_dual"}
               /\ op'.t = t
               /\ timer'[t].state = 0

C12_StateOscillates == [](C12_StateInv) /\ [][C12_StateStep]_vars

\* a dual state timer back in state 0 after its second expiry
C12_Witness ==
    \E t \in Timers :
        /\ timer[t].type = XKTIMER_DUAL_STATE
        /\ Clean(t) /\ hist[t].n = 2 /\ hist[t].par = 0
        /\ op = [name |-> "handle", t |-> t]
        /\ hist[t].last = xktimer_clock
        /\ timer[t].state = 0

\* C13: the deadline of a registered timer is the clock value of its last
\* deadline update plus the threshold of its current state: every step that
\* changes state, timeout, timeout2 or ticks leaves ticks = now + that
\* threshold, and in every state ticks - threshold is a clock value that
\* has been.
C13_DeadlineInv ==
    \A t \in Timers :
        InRegistry(t) =>
            timer[t].ticks - Threshold(timer[t]) \in 0..xktimer_clock

C13_DeadlineStep ==
    \A t \in Timers :
        (\/ timer'[t].state # timer[t].state
         \/ timer'[t].timeout # timer[t].timeout
         \/ timer'[t].timeout2 # timer[t].timeout2
         \/ timer'[t].ticks # timer[t].ticks) =>
            timer'[t].ticks = xktimer_clock' + Threshold(timer'[t])

C13_DeadlineFollowsState == [](C13_DeadlineInv) /\ [][C13_DeadlineStep]_vars

\* a registered dual state timer in phase 1, some time after the expiry
\* that set its deadline from timeout2
C13_Witness ==
    \E t \in Timers :
        /\ InRegistry(t) /\ Clean(t)
        /\ timer[t].type = XKTIMER_DUAL_STATE
        /\ hist[t].n = 1 /\ timer[t].state = 1
        /\ timer[t].timeout # timer[t].timeout2
        /\ xktimer_clock > hist[t].last
        /\ timer[t].ticks = hist[t].last + timer[t].timeout2

\* C17: xktimer_add with a type other than XKTIMER_SINGLE_SHOT and
\* XKTIMER_PERIODIC registers a single shot timer: the type it stores is
\* XKTIMER_SINGLE_SHOT (whose first expiry disables the timer, C1).
C17_OtherTypesAreSingleShot ==
    [][\A t \in Timers, ty \in TypeInputs, to \in Timeouts,
          cb \in Callbacks, a \in AllocOutcomes :
          (/\ ty \notin {XKTIMER_SINGLE_SHOT, XKTIMER_PERIODIC}
           /\ xktimer_add(t, ty, to, cb, a)
           /\ ret' = "true") => timer'[t].type = XKTIMER_SINGLE_SHOT]_vars

----------------------------------------------------------------------------
(* SpecCb: SpecPoll with callbacks that call the API on their own timer    *)

AddCb ==
    /\ xktimer_ref_idx < MaxRegistered
    /\ \E t \in Timers, ty \in {XKTIMER_SINGLE_SHOT, XKTIMER_PERIODIC},
          to \in Timeouts, cb \in ApiCallbacks \cup {CB_LOG},
          a \in AllocChoices :
            xktimer_add(t, ty, to, cb, a)

AddDualCb ==
    /\ xktimer_ref_idx < MaxRegistered
    /\ \E t \in Timers, to \in Timeouts, to2 \in Timeouts,
          cb \in ApiCallbacks, a \in AllocChoices :
            xktimer_add_dual(t, to, to2, cb, a)

NextCb ==
    \/ AddCb
    \/ AddDualCb
    \/ Start
    \/ Stop
    \/ Handle
    \/ Task
    \/ TickTask

SpecCb == Init /\ [][NextCb]_vars

\* the step is a poll in which the callback of t was invoked
Fires(t) ==
    /\ op'.name \in {"handle", "task"}
    /\ \E i \in DOMAIN fired' : fired'[i].timer = t

\* C14: what a callback does to its own timer through the API stands when
\* xktimer_handle returns.  After a poll that invoked the callback, the
\* timer is as the callback's calls left it: running, in state 0, with
\* timeout T and ticks = now + T after xktimer_set_timeout(T) and
\* xktimer_start; in state 0 with the two new timeouts and ticks = now +
\* the first after xktimer_set_timeout_dual; stopped after xktimer_stop.
\* The timer restarted by its callback expires again T ticks later.
C14_CallbackStep ==
    \A t \in Timers :
        Fires(t) =>
            /\ timer[t].callback = CB_RESTART =>
                  /\ timer'[t].enabled
                  /\ timer'[t].state = 0
                  /\ timer'[t].timeout = CbTimeout
                  /\ timer'[t].ticks = xktimer_clock' + CbTimeout
            /\ timer[t].callback = CB_RETUNE =>
                  /\ timer'[t].enabled = (timer[t].type # XKTIMER_SINGLE_SHOT)
                  /\ timer'[t].state = 0
                  /\ timer'[t].timeout = CbTimeout
                  /\ timer'[t].timeout2 = CbTimeout2
                  /\ timer'[t].ticks = xktimer_clock' + CbTimeout
            /\ timer[t].callback = CB_STOP =>
                  /\ ~timer'[t].enabled
                  /\ timer'[t].timeout = timer[t].timeout
                  /\ timer'[t].ticks = xktimer_clock' + Threshold(timer'[t])

C14_RestartGap ==
    \A t \in Timers :
        (/\ InRegistry(t)
         /\ timer[t].callback = CB_RESTART
         /\ Expires(t)
         /\ hist[t].n >= 1) => xktimer_clock' - hist[t].last = CbTimeout

C14_CallbackMutationsStand == [][C14_CallbackStep /\ C14_RestartGap]_vars

\* a single shot timer, restarted by its callback at its first expiry, has
\* just expired again and is running once more
C14_Witness ==
    \E t \in Timers :
        /\ InRegistry(t) /\ Clean(t)
        /\ timer[t].type = XKTIMER_SINGLE_SHOT
        /\ timer[t].callback = CB_RESTART
        /\ op.name = "task"
        /\ fired = <<Call(t, 0)>>
        /\ hist[t].n = 2
        /\ hist[t].last = xktimer_clock
        /\ timer[t].enabled
        /\ timer[t].timeout = CbTimeout
        /\ timer[t].ticks = xktimer_clock + CbTimeout

----------------------------------------------------------------------------
(* SpecDup: one timer registered more than once, in both builds.  The      *)
(* caller registers the same periodic timer up to MaxSlots times, starts   *)
(* it and runs xktimer_task, during the first MaxRegClock ticks.           *)

MaxSlots == 3

DupTimeouts == {0, 1}

InitDup == InitWith(1, BOOLEAN, {1000})

AddDup ==
    /\ xktimer_ref_idx < MaxSlots
    /\ \E t \in Timers, to \in DupTimeouts, a \in AllocChoices :
          xktimer_add(t, XKTIMER_PERIODIC, to, CB_LOG, a)

NextDup ==
    \/ InitModule
    \/ AddDup
    \/ Start
    \/ Task
    \/ TickReg

SpecDup == InitDup /\ [][NextDup]_vars

\* the step is a call xktimer_add(t, XKTIMER_PERIODIC, to, cb_log) in which
\* the heap behaves as alloc says
DupAddCall(t, alloc) ==
    \E to \in DupTimeouts : xktimer_add(t, XKTIMER_PERIODIC, to, CB_LOG, alloc)

\* the number of registry entries that point to t
SlotsOf(t) ==
    Cardinality({i \in DOMAIN xktimer_ref.slot : xktimer_ref.slot[i] = t})

\* C15: xktimer_add of a timer that is already registered, while capacity
\* remains, returns true and appends a second entry that points to the same
\* record; a pass of xktimer_task then calls xktimer_handle on the record
\* once per entry, so a running timer with timeout 0 and a callback has its
\* callback invoked once per entry.
C15_DupAddStep ==
    \A t \in Timers, a \in AllocOutcomes :
        (/\ InRegistry(t)
         /\ xktimer_ref_idx < XKTIMER_MAX_TIMERS
         /\ DupAddCall(t, a)) =>
            /\ ret' = "true"
            /\ ~crashed'
            /\ ~xktimer_ref'.null
            /\ xktimer_ref'.slot = Append(xktimer_ref.slot, t)
            /\ xktimer_ref_idx' = xktimer_ref_idx + 1

C15_TaskStep ==
    \A t \in Timers :
        (/\ InRegistry(t)
         /\ timer[t].enabled /\ HasCallback(t)
         /\ timer[t].timeout = 0
         /\ xktimer_clock >= timer[t].ticks
         /\ Task) =>
            fired' = [i \in 1..SlotsOf(t) |-> Call(t, 0)]

C15_DuplicatesAccepted == [][C15_DupAddStep /\ C15_TaskStep]_vars

\* C16: in the heap build, when the registry cannot store the new entry
\* (the registry pointer is NULL, or realloc fails), xktimer_add returns
\* false, leaves the registry as it was and the program running.
C16_AllocFailureReported ==
    [][\A t \in Timers, a \in AllocOutcomes :
          (/\ ~no_malloc
           /\ xktimer_ref.null \/ a # "ok"
           /\ DupAddCall(t, a)) =>
              /\ ret' = "false"
              /\ ~crashed'
              /\ UNCHANGED <<xktimer_ref, xktimer_ref_idx>>]_vars

----------------------------------------------------------------------------
(* SpecPeriodic: the simple periodic timer, xktimer_periodic, polled at     *)
(* every clock tick (and as often again within a tick as the caller        *)
(* likes), on platforms with one, two or three clock() units per           *)
(* millisecond.                                                            *)

Periods == 0..MaxTimeout

\* mutant: strictly later than the period
periodic_strictly_after(ticks, period, clk) ==
    IF clk > ticks + period
    THEN [ticks |-> clk, result |-> TRUE]
    ELSE [ticks |-> ticks, result |-> FALSE]

\* xktimer_periodic(&ticks, period) when xktimer_clock() returns clk: the
\* value of ticks afterwards and the value returned
xktimer_periodic(ticks, period, clk) ==
    IF clk >= ticks + period
    THEN [ticks |-> clk, result |-> TRUE]
    ELSE [ticks |-> ticks, result |-> FALSE]

\* the caller polls its simple periodic timer when the clock reads clk
PollAt(clk) ==
    /\ ~crashed
    /\ LET r == xktimer_periodic(ptimer.ticks, ptimer.period, clk)
       IN  /\ ptimer' = [ptimer EXCEPT !.ticks = r.ticks]
           /\ ret' = IF r.result THEN "true" ELSE "false"
    /\ op' = [name |-> "periodic", t |-> NULL]
    /\ fired' = <<>>
    /\ UNCHANGED <<clocks_per_sec, no_malloc, timer, xktimer_ref,
                   xktimer_ref_idx, crashed, hist>>

PollNow == UNCHANGED clock /\ PollAt(xktimer_clock)

TickPoll ==
    /\ ScaleClock(clock + 1) <= MaxClock
    /\ clock' = clock + 1
    /\ PollAt(ScaleClock(clock + 1))

\* the caller sets up a fresh reference, `ticks = xktimer_clock();`, and
\* chooses the period it will poll with
Fresh ==
    /\ ~crashed
    /\ \E p \in Periods :
          ptimer' = [ticks |-> xktimer_clock, period |-> p]
    /\ op' = [name |-> "fresh", t |-> NULL]
    /\ ret' = "none"
    /\ fired' = <<>>
    /\ UNCHANGED <<clock, clocks_per_sec, no_malloc, timer, xktimer_ref,
                   xktimer_ref_idx, crashed, hist>>

InitPeriodic == InitWith(1, {TRUE}, {1000, 2000, 3000})

NextPeriodic ==
    \/ Fresh
    \/ PollNow
    \/ TickPoll

SpecPeriodic == InitPeriodic /\ [][NextPeriodic]_vars

\* the contract of one call: true exactly when now - *ticks >= period, then
\* *ticks = now; otherwise *ticks is unchanged
C18_PollStep ==
    (PollNow \/ TickPoll) =>
        /\ (ret' = "true") = (xktimer_clock' - ptimer.ticks >= ptimer.period)
        /\ ret' \in {"true", "false"}
        /\ ptimer'.ticks = IF ret' = "true" THEN xktimer_clock'
                           ELSE ptimer.ticks
        /\ ptimer'.period = ptimer.period

\* C18 as stated: the contract of one call, and, polled at every tick from
\* a fresh reference, true once per period: each true return comes exactly
\* period ticks after the reference was set or last reset.
C18_TrueOncePerPeriod ==
    [][/\ C18_PollStep
       /\ ((PollNow \/ TickPoll) /\ ret' = "true") =>
              xktimer_clock' - ptimer.ticks = ptimer.period]_vars

\* C18 amended: the same for periods of at least one tick; with period 0
\* every call returns true.
C18_TrueOncePerPositivePeriod ==
    [][/\ C18_PollStep
       /\ ((PollNow \/ TickPoll) /\ ret' = "true" /\ ptimer.period >= 1) =>
              xktimer_clock' - ptimer.ticks = ptimer.period
       /\ ((PollNow \/ TickPoll) /\ ptimer.period = 0) => ret' = "true"]_vars

\* a true return that is not the first possible one of its reference: the
\* clock is at least two periods on
C18_Witness ==
    /\ op.name = "periodic"
    /\ ret = "true"
    /\ ptimer.period >= 1
    /\ ptimer.ticks = xktimer_clock
    /\ xktimer_clock >= 2 * ptimer.period
    /\ clocks_per_sec = 2000

----------------------------------------------------------------------------
(* SpecGet: the getters and the calls with a NULL pointer, on platforms     *)
(* with one or two clock() units per millisecond.  One dual state timer,   *)
(* registered, started and polled; every API function is also called with  *)
(* NULL.                                                                   *)

GetTimeouts == {1, 2}

InitGet == InitWith(1, {TRUE}, {1000, 2000})

AddGet ==
    /\ xktimer_ref_idx < MaxRegistered
    /\ \E t \in Timers, to \in GetTimeouts :
          xktimer_add_dual(t, to, 1, CB_LOG, "ok")

Get ==
    \E t \in Timers :
        \/ xktimer_timeout(t)
        \/ xktimer_timeout2(t)
        \/ xktimer_next_timeout(t)
        \/ xktimer_running(t)

UpdateTicks == \E t \in Timers : xktimer_update_ticks_api(t)

NextGet ==
    \/ AddGet
    \/ Start
    \/ Handle
    \/ UpdateTicks
    \/ Get
    \/ NullCall
    \/ Tick

SpecGet == InitGet /\ [][NextGet]_vars

\* C19: xktimer_next_timeout returns the milliseconds left before the timer
\* times out: its deadline minus xktimer_clock(), whatever the ratio
\* CLOCKS_PER_SEC / XKTIMER_RESOLUTION.
C19_NextTimeoutInMs ==
    [][\A t \in Timers :
          (InRegistry(t) /\ timer[t].enabled /\ xktimer_next_timeout(t)) =>
              ret' = timer[t].ticks - xktimer_clock]_vars

\* C20: every API function that takes a timer pointer, called with NULL,
\* changes neither the registry nor any timer record, invokes no callback
\* and leaves the program running; xktimer_add, xktimer_add_dual and
\* xktimer_running return false, and xktimer_timeout, xktimer_timeout2 and
\* xktimer_next_timeout return 0.
C20_NullStep ==
    NullCall =>
        /\ UNCHANGED <<timer, xktimer_ref, xktimer_ref_idx, crashed>>
        /\ fired' = <<>>
        /\ op'.name \in {"add", "add_dual", "running"} => ret' = "false"
        /\ op'.name \in {"timeout", "timeout2", "next_timeout"} => ret' = 0

C20_NullIsNoOp == [][C20_NullStep]_vars

\* xktimer_add(NULL, ...) has just been refused while a timer is registered
\* and running
C20_Witness ==
    /\ op = [name |-> "add", t |-> NULL]
    /\ ret = "false"
    /\ xktimer_ref_idx = 1
    /\ \E t \in Timers : InRegistry(t) /\ timer[t].enabled

----------------------------------------------------------------------------
(* The expiry in detail (Spec) *)

\* the record of a running, due timer r at the moment xktimer_handle
\* reaches the callback, when xktimer_clock() returns clk
AtCallbackEntry(r, clk) ==
    LET phase == IF r.type = XKTIMER_DUAL_STATE THEN 1 - r.state ELSE r.state
    IN  [r EXCEPT
            !.enabled = (r.type # XKTIMER_SINGLE_SHOT),
            !.state = phase,
            !.ticks = clk + (IF phase = 0 THEN r.timeout ELSE r.timeout2)]

\* C21: at every expiry xktimer_handle first makes the transition of the
\* timer's type (single shot disabled, dual state toggled) and recomputes
\* the deadline, ticks = now + threshold of the new phase, and then invokes
\* the callback, once, with the state of that moment; the record after the
\* call is that record as the callback leaves it.  With a NULL callback
\* the transition and the recompute are the same and nothing is invoked.
C21_ExpiryStep ==
    \A t \in Timers :
        (/\ timer[t].enabled
         /\ xktimer_clock >= timer[t].ticks
         /\ xktimer_handle(t)) =>
            LET entry == AtCallbackEntry(timer[t], xktimer_clock)
            IN  /\ timer'[t] =
                      CallbackBody(timer[t].callback,
                                   [timer EXCEPT ![t] = entry], t,
                                   xktimer_clock)[t]
                /\ fired' = IF HasCallback(t)
                            THEN <<Call(t, entry.state)>>
                            ELSE <<>>

----------------------------------------------------------------------------
(* SpecLate: late polls.  The caller registers one timer with a timeout of *)
(* at least one tick and starts it while the clock is 0, then polls it     *)
(* whenever it likes, possibly several timeouts late.                      *)

LateTimeouts == 1..MaxTimeout

AddLate ==
    /\ xktimer_clock = 0
    /\ xktimer_ref_idx < MaxRegistered
    /\ \/ \E t \in Timers, ty \in {XKTIMER_SINGLE_SHOT, XKTIMER_PERIODIC},
             to \in LateTimeouts, cb \in Callbacks :
               xktimer_add(t, ty, to, cb, "ok")
       \/ \E t \in Timers, to \in LateTimeouts, to2 \in LateTimeouts,
             cb \in Callbacks :
               xktimer_add_dual(t, to, to2, cb, "ok")

StartLate == xktimer_clock = 0 /\ Start

NextLate ==
    \/ AddLate
    \/ StartLate
    \/ Handle
    \/ Task
    \/ Tick

SpecLate == Init /\ [][NextLate]_vars

\* C22: one call of xktimer_handle invokes the callback at most once,
\* however late the poll is; the periods missed are not replayed: the next
\* deadline is now + the active threshold, not the missed deadline + the
\* threshold, and a further call at the clock value of the expiry invokes
\* nothing.
C22_HandleStep ==
    \A t \in Timers :
        xktimer_handle(t) =>
            /\ Len(fired') <= 1
            /\ fired' # <<>> =>
                  /\ timer'[t].ticks = xktimer_clock + Threshold(timer'[t])
                  /\ timer'[t].ticks > xktimer_clock

C22_NoReplayStep ==
    \A t \in Timers :
        (/\ Clean(t) /\ hist[t].n >= 1
         /\ hist[t].last = xktimer_clock
         /\ HasCallback(t)
         /\ xktimer_handle(t)) => fired' = <<>>

C22_MissedPeriodsNotReplayed == [][C22_HandleStep /\ C22_NoReplayStep]_vars

\* a periodic timer started at clock 0 has just expired for the first time,
\* at least two timeouts after its deadline
C22_Witness ==
    \E t \in Timers :
        /\ op = [name |-> "handle", t |-> t]
        /\ timer[t].type = XKTIMER_PERIODIC
        /\ Clean(t) /\ hist[t].n = 1 /\ hist[t].last = xktimer_clock
        /\ xktimer_clock >= 3 * timer[t].timeout
        /\ fired = <<Call(t, 0)>>
        /\ timer[t].ticks = xktimer_clock + timer[t].timeout

----------------------------------------------------------------------------
(* SpecOrder: two timers, each registered once, in either order, started   *)
(* and polled by xktimer_task.                                             *)

OrderTimeouts == {1, 2}

InitOrder == InitWith(2, BOOLEAN, {1000})

AddOrder ==
    \E t \in Timers, ty \in {XKTIMER_SINGLE_SHOT, XKTIMER_PERIODIC},
       to \in OrderTimeouts :
        /\ ~InRegistry(t)
        /\ xktimer_add(t, ty, to, CB_LOG, "ok")

NextOrder ==
    \/ AddOrder
    \/ Start
    \/ Stop
    \/ Task
    \/ Tick

SpecOrder == InitOrder /\ [][NextOrder]_vars

\* timer t is running and due
Due(t) == timer[t].enabled /\ xktimer_clock >= timer[t].ticks

\* C23: a call of xktimer_task handles every registry entry once, in the
\* order of registration, without leaving early: every registered timer
\* that is running and due expires in the call, no other record changes,
\* and the callbacks invoked are those of the due timers in registry order.
C23_TaskStep ==
    Task =>
        /\ \A t \in Timers :
              timer'[t] = IF InRegistry(t) /\ Due(t)
                          THEN AtCallbackEntry(timer[t], xktimer_clock)
                          ELSE timer[t]
        /\ LET due == SelectSeq(xktimer_ref.slot,
                                LAMBDA t : Due(t) /\ HasCallback(t))
           IN  fired' = [i \in 1..Len(due) |-> Call(due[i], 0)]

C23_TaskInRegistryOrder == [][C23_TaskStep]_vars

\* both timers have just expired in one call of xktimer_task, the second
\* record first because it was registered first
C23_Witness ==
    /\ op.name = "task"
    /\ xktimer_ref.slot = <<2, 1>>
    /\ fired = <<Call(2, 0), Call(1, 0)>>
    /\ timer[1].timeout # timer[2].timeout

----------------------------------------------------------------------------
(* SpecWrap: clock_t is ClockBits wide. clock counts the ticks that have   *)
(* really passed; xktimer_clock() returns that count modulo 2^ClockBits,   *)
(* and the sum stored in the ticks field is cut to the same width. One     *)
(* timer is registered at program start, started at any time and polled    *)
(* by xktimer_handle until the clock has gone once around.                 *)

MaxWrapClock == Modulus + MaxClock

WrapTimeouts == 1..MaxTimeout

\* a value stored in a clock_t
WrapClock(c) == c % Modulus

\* what xktimer_clock() returns
xktimer_clock_w == WrapClock(xktimer_clock)

\* the record r with its ticks field as a clock_t holds it
WrapTicks(r) == [r EXCEPT !.ticks = WrapClock(r.ticks)]

AddWrap ==
    \E t \in Timers, ty \in {XKTIMER_SINGLE_SHOT, XKTIMER_PERIODIC},
       to \in WrapTimeouts, cb \in Callbacks :
        /\ xktimer_clock = 0
        /\ xktimer_ref_idx < MaxRegistered
        /\ xktimer_add(t, ty, to, cb, "ok")

StartWrap ==
    \E t \in Timers :
        Mutate("start", t,
               WrapTicks(xktimer_start_fields(timer[t], xktimer_clock_w)),
               HistStart(xktimer_clock))

HandleWrap(t) ==
    /\ ~crashed
    /\ op' = [name |-> "handle", t |-> t]
    /\ \E res \in {HandleResult(timer, t, xktimer_clock_w)} :
          Polled([res EXCEPT !.tm = [u \in Timers |-> WrapTicks(res.tm[u])]],
                 xktimer_clock)
    /\ UNCHANGED <<clock, clocks_per_sec, no_malloc, ptimer, xktimer_ref,
                   xktimer_ref_idx, crashed>>

PollWrap == \E t \in Timers : HandleWrap(t)

TickWrap ==
    /\ xktimer_clock < MaxWrapClock
    /\ clock' = clock + 1
    /\ UNCHANGED <<clocks_per_sec, no_malloc, ptimer, timer, xktimer_ref,
                   xktimer_ref_idx, crashed, op, ret, fired, hist>>

NextWrap ==
    \/ AddWrap
    \/ StartWrap
    \/ PollWrap
    \/ TickWrap

SpecWrap == Init /\ [][NextWrap]_vars

\* timer t was started at hist[t].last and has not expired since
Pending(t) == hist[t].n = 0 /\ timer[t].enabled /\ timer[t].timeout > 0

\* the number of times the clock has gone around at tick count c
Epoch(c) == c \div Modulus

\* the deadline computed at the start does not fit in a clock_t: until the
\* clock goes around every poll finds the timer expired, although fewer
\* ticks than its timeout have passed
C24_EarlyStep ==
    \A t \in Timers :
        (/\ Pending(t)
         /\ WrapClock(hist[t].last) + timer[t].timeout >= Modulus
         /\ Epoch(xktimer_clock) = Epoch(hist[t].last)
         /\ HandleWrap(t))
        => /\ hist'[t].n = 1
           /\ HasCallback(t) => fired' = <<Call(t, 0)>>
           /\ xktimer_clock - hist[t].last < timer[t].timeout

\* the deadline fits but the clock has gone around before the poll: the
\* timer is not found expired, although its timeout has passed
C24_MissedStep ==
    \A t \in Timers :
        (/\ Pending(t)
         /\ WrapClock(hist[t].last) + timer[t].timeout < Modulus
         /\ Epoch(xktimer_clock) = Epoch(hist[t].last) + 1
         /\ xktimer_clock_w < WrapClock(hist[t].last) + timer[t].timeout
         /\ HandleWrap(t))
        => /\ timer' = timer
           /\ hist' = hist
           /\ fired' = <<>>
           /\ xktimer_clock - hist[t].last >= timer[t].timeout

\* C24: with a clock_t of w bits (values modulo 2^w) the test
\* xktimer_clock() >= timer->ticks goes wrong around the wrap: a timer
\* started with a timeout T > 0 whose deadline sum wrapped is found expired
\* by xktimer_handle fewer than T ticks after the start, and one whose
\* deadline did not wrap is not found expired by a poll made after the
\* clock wrapped, although T ticks or more have passed.
C24_ComparisonNotWrapSafe == [][C24_EarlyStep /\ C24_MissedStep]_vars

\* xktimer_handle has just left a running timer alone although its timeout
\* has passed since it was started
C24_Witness ==
    \E t \in Timers :
        /\ op = [name |-> "handle", t |-> t]
        /\ Pending(t)
        /\ fired = <<>>
        /\ xktimer_clock - hist[t].last >= timer[t].timeout
        /\ Epoch(xktimer_clock) = Epoch(hist[t].last) + 1

----------------------------------------------------------------------------
(* SpecCross: two timers, periodic or dual state, registered once each at  *)
(* program start in either order; the callback of each may stop, start or  *)
(* retune the other timer. They are started and polled by xktimer_task     *)
(* during the first MaxRegClock ticks.                                     *)

CrossTimeouts == {0, 1}

InitCross == InitWith(2, {TRUE}, {1000})

AddCross ==
    \E t \in Timers, to \in CrossTimeouts,
       cb \in CrossCallbacks \cup {CB_LOG} :
        /\ xktimer_clock = 0
        /\ ~InRegistry(t)
        /\ \/ xktimer_add(t, XKTIMER_PERIODIC, to, cb, "ok")
           \/ \E to2 \in CrossTimeouts : xktimer_add_dual(t, to, to2, cb, "ok")

TickCross ==
    /\ xktimer_clock < MaxRegClock
    /\ Tick

NextCross ==
    \/ AddCross
    \/ Start
    \/ Task
    \/ TickCross

SpecCross == InitCross /\ [][NextCross]_vars

\* both timers are registered, a before b, and both are running and due
BothDue(a, b) ==
    /\ xktimer_ref.slot = <<a, b>>
    /\ Due(a)
    /\ Due(b)

\* timer b appears among the callback invocations calls
Invoked(calls, b) == \E i \in 1..Len(calls) : calls[i].timer = b

\* the API call made by callback cb on the due record r leaves it stopped
\* or with a deadline after clk
TakesOutOfPass(cb, r, clk) ==
    \/ cb = CB_STOP_OTHER
    \/ cb = CB_START_OTHER /\ r.timeout >= 1
    \/ cb = CB_SET_OTHER /\ (IF r.state = 0 THEN CbTimeout ELSE r.timeout2) >= 1

\* the earlier timer's callback acts on the later timer, which is also due:
\* the later timer's callback is not invoked
C25_EarlierStep ==
    \A a, b \in Timers :
        (BothDue(a, b) /\ timer[a].callback \in CrossCallbacks /\ Task)
        => ~Invoked(fired', b)

\* the same, where the call leaves the later timer stopped or with a
\* deadline in the future; where it does not, the later timer's callback is
\* invoked
C25_EarlierStepFuture ==
    \A a, b \in Timers :
        (BothDue(a, b) /\ timer[a].callback \in CrossCallbacks /\ Task)
        => (Invoked(fired', b)
              <=> ~TakesOutOfPass(timer[a].callback, timer[b], xktimer_clock))

\* the later timer's callback acts on the earlier timer: both callbacks are
\* invoked once each, the earlier first, and the call is made on the record
\* the earlier timer has after its expiry
C25_LaterStep ==
    \A a, b \in Timers :
        (/\ BothDue(a, b)
         /\ timer[a].callback = CB_LOG
         /\ timer[b].callback \in CrossCallbacks
         /\ Task)
        => LET ea == AtCallbackEntry(timer[a], xktimer_clock)
               eb == AtCallbackEntry(timer[b], xktimer_clock)
           IN  /\ fired' = <<Call(a, ea.state), Call(b, eb.state)>>
               /\ timer'[b] = eb
               /\ timer'[a] = CrossEffect(timer[b].callback, ea, xktimer_clock)

\* C25 as stated: in one pass of xktimer_task, when the callback of the
\* earlier registered timer stops, starts or retunes a later registered timer
\* that is also due, the later timer's callback is not invoked in the pass;
\* a call made by the later timer's callback on the earlier timer does not
\* undo the earlier timer's firing and stands at the end of the pass.
C25_CrossTimerMutation == [][C25_EarlierStep /\ C25_LaterStep]_vars

\* C25, amended: the later timer's callback is not invoked exactly when the
\* earlier callback's call leaves it stopped or with a deadline in the
\* future, that is unless it is restarted or retuned with an active
\* threshold of 0; the part about the later timer's callback as stated.
C25_CrossTimerMutationFuture == [][C25_EarlierStepFuture /\ C25_LaterStep]_vars

\* timer 2, started at this clock value with timeout 0 and so due ever
\* since, has been stopped by the callback of timer 1, registered before it,
\* and its callback has not been invoked
C25_Witness ==
    /\ op.name = "task"
    /\ xktimer_ref.slot = <<1, 2>>
    /\ timer[1].callback = CB_STOP_OTHER
    /\ fired = <<Call(1, 0)>>
    /\ HasCallback(2)
    /\ hist[2].n = 0
    /\ hist[2].last = xktimer_clock
    /\ timer[2].ticks = xktimer_clock
    /\ ~timer[2].enabled

====
